---- MODULE Spec2Model ----
(***************************************************************************)
(* A model of dts_unpacker.py: the scan for the HSDT signature, the        *)
(* decoding of the header and of the entry table, the reading of each      *)
(* entry's DTB and VRL payload, the gzip classification, and main's        *)
(* writing of the extracted images and of image_info.json.                 *)
(*                                                                         *)
(* The image file is a finite byte string.  It is kept as its length and   *)
(* the bytes of the regions the image builder wrote; every other byte of   *)
(* the file is padding, Fill(p).  All reads return plain byte sequences.   *)
(***************************************************************************)
EXTENDS Integers, Sequences, FiniteSets, TLC

VARIABLES stream, pos, preserve, pc, current_pos, last_pos, nread, magic_pos,
          header, entries, dts, result, w, files, gz_calls, manifest, failure

vars == <<stream, pos, preserve, pc, current_pos, last_pos, nread, magic_pos,
          header, entries, dts, result, w, files, gz_calls, manifest, failure>>

----------------------------------------------------------------------------
(* Program constants *)

HSDT_MAGIC == <<72, 83, 68, 84>>

GZIP_MAGIC == <<31, 139>>

LOWEST_PAGE_SIZE == 2048

\* sizeof(dt_head_info): c_char * 4, c_int, c_int
HeaderSize == 4 + 4 + 4

\* sizeof(dt_entry_t): 4 + 4 ubytes, four c_int, two c_ulonglong
EntrySize == 4 + 4 + 4 + 4 + 4 + 4 + 8 + 8

----------------------------------------------------------------------------
(* Bounds of the model *)

\* pages of padding in front of the page that holds the container
MaxPadBlocks == 1

\* entry records in the table
MaxEntries == 2

\* reads the scan may make at or past the end of the data
MaxEofReads == 2

\* padding bytes that follow the payload
TailLen == 4

----------------------------------------------------------------------------
(* Bytes and integers *)

Min(a, b) == IF a < b THEN a ELSE b

Max(a, b) == IF a > b THEN a ELSE b

\* bytes[:n]
Take(b, n) == SubSeq(b, 1, Min(n, Len(b)))

\* ctypes c_int read from 4 little-endian bytes (two's complement)
I32(b) ==
    b[1] + 256 * b[2] + 65536 * b[3]
      + 16777216 * (IF b[4] >= 128 THEN b[4] - 256 ELSE b[4])

\* the 4 little-endian bytes of a c_int, as the image builder writes them
LE32(n) ==
    << n % 256, (n \div 256) % 256, (n \div 65536) % 256,
       (n \div 16777216) % 256 >>

Zeros(n) == [i \in 1..n |-> 0]

----------------------------------------------------------------------------
(* The byte source: open(args.input, "rb") *)

\* the padding byte at 0-based position p; never a byte of either signature
Fill(p) == 150 + (p % 100)

ByteAt(s, p) == IF p \in DOMAIN s.at THEN s.at[p] ELSE Fill(p)

\* the number of bytes f.read(n) returns with the cursor at cur: at most n,
\* fewer at end of data, none at or past it; n = -1 reads to the end
ReadLen(s, cur, n) ==
    LET avail == Max(s.len - cur, 0)
    IN  IF n < 0 THEN avail ELSE Min(n, avail)

\* f.read(n) with the cursor at cur
ReadBytes(s, cur, n) ==
    [i \in 1..ReadLen(s, cur, n) |-> ByteAt(s, cur + i - 1)]

\* f.read raises ValueError for a size below -1
ReadSizeOk(n) == n >= -1

\* f.seek(p) raises OSError for a negative position
SeekOk(p) == p >= 0

\* buffer.find(HSDT_MAGIC) != -1, for the buffer of k bytes read at cur:
\* the magic lies wholly inside the buffer.  No padding byte is the magic's
\* first byte, so a match can only start at a written byte.
HasMagic(s, cur, k) ==
    \E p \in DOMAIN s.at :
        /\ p >= cur
        /\ p + Len(HSDT_MAGIC) <= cur + k
        /\ \A j \in 1..Len(HSDT_MAGIC) : ByteAt(s, p + j - 1) = HSDT_MAGIC[j]

----------------------------------------------------------------------------
(* Library conversions the program calls *)

\* a gzip member, reduced to what decides well-formedness here: the magic,
\* the compression method byte (8), the body, and a trailer holding the
\* body's length
GzipCompress(d) == GZIP_MAGIC \o <<8>> \o d \o <<Len(d)>>

\* gzip.decompress raises BadGzipFile / EOFError on anything else
GzipOk(b) ==
    /\ Len(b) >= 4
    /\ Take(b, 2) = GZIP_MAGIC
    /\ b[3] = 8
    /\ b[Len(b)] = Len(b) - 4

gzip_decompress(b) == SubSeq(b, 4, Len(b) - 1)

Cont(c) == c \in 128..191

\* the number of bytes of the UTF-8 sequence that starts b, 0 if ill-formed
Utf8Width(b) ==
    LET n == Len(b)
        c == b[1]
    IN  IF c < 128 THEN 1
        ELSE IF c \in 194..223 THEN
            IF n >= 2 /\ Cont(b[2]) THEN 2 ELSE 0
        ELSE IF c \in 224..239 THEN
            IF /\ n >= 3
               /\ b[2] \in (IF c = 224 THEN 160..191
                            ELSE IF c = 237 THEN 128..159 ELSE 128..191)
               /\ Cont(b[3])
            THEN 3 ELSE 0
        ELSE IF c \in 240..244 THEN
            IF /\ n >= 4
               /\ b[2] \in (IF c = 240 THEN 144..191
                            ELSE IF c = 244 THEN 128..143 ELSE 128..191)
               /\ Cont(b[3])
               /\ Cont(b[4])
            THEN 4 ELSE 0
        ELSE 0

RECURSIVE Utf8Ok(_)
\* bytes.decode() raises UnicodeDecodeError unless the bytes are UTF-8
Utf8Ok(b) ==
    IF b = <<>> THEN TRUE
    ELSE LET k == Utf8Width(b)
         IN  k > 0 /\ Utf8Ok(SubSeq(b, k + 1, Len(b)))

RECURSIVE Utf8Decode(_)
\* bytes.decode(): the code points of well-formed UTF-8
Utf8Decode(b) ==
    IF b = <<>> THEN <<>>
    ELSE LET k  == Utf8Width(b)
             cp == IF k = 1 THEN b[1]
                   ELSE IF k = 2 THEN (b[1] - 192) * 64 + (b[2] - 128)
                   ELSE IF k = 3 THEN
                       (b[1] - 224) * 4096 + (b[2] - 128) * 64 + (b[3] - 128)
                   ELSE (b[1] - 240) * 262144 + (b[2] - 128) * 4096
                          + (b[3] - 128) * 64 + (b[4] - 128)
         IN  <<cp>> \o Utf8Decode(SubSeq(b, k + 1, Len(b)))

----------------------------------------------------------------------------
(* Struct layouts *)

\* dt_head_info.from_buffer_copy(b), Len(b) >= HeaderSize
DecodeHeader(b) ==
    [ magic    |-> SubSeq(b, 1, 4),
      version  |-> I32(SubSeq(b, 5, 8)),
      dt_count |-> I32(SubSeq(b, 9, 12)) ]

\* dt_entry_t.from_buffer_copy(b), Len(b) >= EntrySize; dtb_file and
\* vrl_file are never read by the program
DecodeEntry(b) ==
    [ board_id   |-> SubSeq(b, 1, 4),
      dtb_size   |-> I32(SubSeq(b, 9, 12)),
      vrl_size   |-> I32(SubSeq(b, 13, 16)),
      dtb_offset |-> I32(SubSeq(b, 17, 20)),
      vrl_offset |-> I32(SubSeq(b, 21, 24)) ]

\* the bytes of a header as an image holds them
EncodeHeader(magic, version, count) == magic \o LE32(version) \o LE32(count)

\* the bytes of an entry record as an image holds them
EncodeEntry(e) ==
    e.board_id \o Zeros(4) \o LE32(e.dtb_size) \o LE32(e.vrl_size)
      \o LE32(e.dtb_offset) \o LE32(e.vrl_offset) \o Zeros(8) \o Zeros(8)

RECURSIVE EncodeTable(_)
EncodeTable(recs) ==
    IF recs = <<>> THEN <<>>
    ELSE EncodeEntry(Head(recs)) \o EncodeTable(Tail(recs))

----------------------------------------------------------------------------
(* Input images *)

\* the payload offset the entries of the input images use, past the
\* largest table
PayOff == HeaderSize + MaxEntries * EntrySize + 8

\* where the signature sits inside its page: at the page's first byte, a
\* few bytes in, or across the boundary to the next page
SigOffsets == {0, 4, LOWEST_PAGE_SIZE - 2}

Magics == {HSDT_MAGIC, <<72, 83, 68, 0>>}

Versions == {1}

Payloads ==
    { <<222, 173, 190, 239>>,
      GzipCompress(<<222, 173>>),
      <<31, 139, 8, 222, 173, 9>> }

EntryInputs ==
    { [board_id |-> <<65, 66, 48, 49>>, dtb_size |-> 4, dtb_offset |-> PayOff,
       vrl_size |-> 2, vrl_offset |-> PayOff + 6],
      [board_id |-> <<65, 66, 48, 50>>, dtb_size |-> 6, dtb_offset |-> PayOff,
       vrl_size |-> 2, vrl_offset |-> 0],
      [board_id |-> <<65, 66, 48, 51>>, dtb_size |-> 1, dtb_offset |-> PayOff,
       vrl_size |-> 0, vrl_offset |-> 0],
      [board_id |-> <<65, 66, 48, 52>>, dtb_size |-> 2,
       dtb_offset |-> PayOff + 2, vrl_size |-> 0, vrl_offset |-> 0],
      [board_id |-> <<65, 66, 48, 53>>, dtb_size |-> 4, dtb_offset |-> -1,
       vrl_size |-> 0, vrl_offset |-> 0] }

Tables == UNION { [1..n -> EntryInputs] : n \in 0..MaxEntries }

\* the entry counts a header may claim for a table
Counts(recs) == {Len(recs)} \cup (IF recs = <<>> THEN {-1} ELSE {})

Cuts == {"none", "payload", "table", "header"}

Place(start, bytes) ==
    [p \in start..(start + Len(bytes) - 1) |-> bytes[p - start + 1]]

\* an image: pad pages of padding, the container (header and table) sig
\* bytes into the next page, the payload at PayOff past twice the padding,
\* TailLen bytes of padding after it, and the whole cut short at cut
Image(pad, sig, magic, version, count, recs, payload, cut) ==
    LET cs     == pad * LOWEST_PAGE_SIZE + sig
        table  == EncodeTable(recs)
        payAt  == 2 * pad * LOWEST_PAGE_SIZE + PayOff
        full   == Max(cs + HeaderSize + Len(table),
                      payAt + Len(payload) + TailLen)
        cutAt  == IF cut = "payload" THEN payAt + 2
                  ELSE IF cut = "table"
                       THEN cs + HeaderSize + Len(table) - (EntrySize \div 2)
                  ELSE IF cut = "header" THEN cs + 8
                  ELSE full
    IN  [ len |-> Min(full, cutAt),
          at  |-> Place(cs, EncodeHeader(magic, version, count))
                    @@ Place(cs + HeaderSize, table)
                    @@ Place(payAt, payload) ]

----------------------------------------------------------------------------
(* State after main has parsed its arguments and opened the input *)

Init ==
    /\ \E pad \in 0..MaxPadBlocks, sig \in SigOffsets, magic \in Magics,
          version \in Versions, recs \in Tables, payload \in Payloads,
          cut \in Cuts :
          \E count \in Counts(recs) :
             stream = Image(pad, sig, magic, version, count, recs, payload, cut)
    /\ preserve \in BOOLEAN
    /\ pos = 0
    /\ pc = "Start"
    /\ current_pos = 0
    /\ last_pos = 0
    /\ nread = 0
    /\ magic_pos = 0
    /\ header = <<>>
    /\ entries = <<>>
    /\ dts = <<>>
    /\ result = <<>>
    /\ w = 0
    /\ files = <<>>
    /\ gz_calls = {}
    /\ manifest = <<>>
    /\ failure = ""

\* an exception caught and dropped: the run goes on where it was
Raise_Swallowed(reason) ==
    /\ failure' = reason
    /\ UNCHANGED pc

\* an exception leaves read_dtb or main: the process ends with a traceback
Raise(reason) ==
    /\ pc' = "Failed"
    /\ failure' = reason

----------------------------------------------------------------------------
(* find_hsdt_magic *)

\* read_dtb is entered and find_hsdt_magic sets its two positions
StartParse ==
    /\ pc = "Start"
    /\ pc' = "MagicSearch"
    /\ current_pos' = 0
    /\ last_pos' = 0
    /\ UNCHANGED <<stream, pos, preserve, nread, magic_pos, header, entries,
                   dts, result, w, files, gz_calls, manifest, failure>>

\* find_hsdt_magic returning current_pos, the end of the block just read
FoundPos_Current(last, current) == current

\* what find_hsdt_magic returns when the block just read holds the magic
FoundPos(last, current) == last

\* one turn of the while loop
ScanBlock ==
    /\ pc = "MagicSearch"
    /\ current_pos < stream.len + MaxEofReads * LOWEST_PAGE_SIZE
    /\ LET k   == ReadLen(stream, pos, LOWEST_PAGE_SIZE)
           cur == current_pos + LOWEST_PAGE_SIZE
       IN  /\ pos' = pos + k
           /\ nread' = k
           /\ current_pos' = cur
           /\ IF HasMagic(stream, pos, k)
              THEN /\ magic_pos' = FoundPos(last_pos, cur)
                   /\ pc' = "HeaderRead"
                   /\ UNCHANGED last_pos
              ELSE /\ last_pos' = cur
                   /\ UNCHANGED <<magic_pos, pc>>
    /\ UNCHANGED <<stream, preserve, header, entries, dts, result, w, files,
                   gz_calls, manifest, failure>>

----------------------------------------------------------------------------
(* read_dtb *)

\* f.seek(magic_pos); the header is read and decoded
ReadHeader ==
    /\ pc = "HeaderRead"
    /\ LET b == ReadBytes(stream, magic_pos, HeaderSize)
       IN  /\ pos' = magic_pos + Len(b)
           /\ IF Len(b) < HeaderSize
              THEN /\ Raise("ValueError")
                   /\ UNCHANGED header
              ELSE /\ header' = <<DecodeHeader(b)>>
                   /\ pc' = "EntryTableRead"
                   /\ UNCHANGED failure
    /\ UNCHANGED <<stream, preserve, current_pos, last_pos, nread, magic_pos,
                   entries, dts, result, w, files, gz_calls, manifest>>

\* a short record padded with zero bytes and decoded like a full one
TableStep_Padded(b, sofar) ==
    [ok |-> TRUE,
     entries |-> Append(sofar, DecodeEntry(b \o Zeros(EntrySize - Len(b))))]

\* a record too short for the struct raises; a full one is decoded
TableStep(b, sofar) ==
    IF Len(b) < EntrySize
    THEN [ok |-> FALSE, entries |-> sofar]
    ELSE [ok |-> TRUE, entries |-> Append(sofar, DecodeEntry(b))]

\* one turn of the first list comprehension: the next record is read
ReadEntry ==
    /\ pc = "EntryTableRead"
    /\ Len(entries) < header[1].dt_count
    /\ LET b == ReadBytes(stream, pos, EntrySize)
           r == TableStep(b, entries)
       IN  /\ pos' = pos + Len(b)
           /\ entries' = r.entries
           /\ IF r.ok
              THEN UNCHANGED <<pc, failure>>
              ELSE Raise("ValueError")
    /\ UNCHANGED <<stream, preserve, current_pos, last_pos, nread, magic_pos,
                   header, dts, result, w, files, gz_calls, manifest>>

\* range(header.dt_count) is exhausted: the list of records is complete
FinishTable ==
    /\ pc = "EntryTableRead"
    /\ Len(entries) >= header[1].dt_count
    /\ pc' = "PayloadsResolved"
    /\ UNCHANGED <<stream, pos, preserve, current_pos, last_pos, nread,
                   magic_pos, header, entries, dts, result, w, files,
                   gz_calls, manifest, failure>>

----------------------------------------------------------------------------
(* DTEntry *)

\* the located position itself handed on as the start
PayloadBase_Single(mp) == mp

\* the start handed to extract_dt for every entry
PayloadBase(mp) == mp * 2

\* only the first byte of the gzip magic compared
IsCompressed_FirstByte(dt) == Take(dt, 1) = Take(GZIP_MAGIC, 1)

\* self._dt[:2] == GZIP_MAGIC
IsCompressed(dt) == Take(dt, 2) = GZIP_MAGIC

\* DTEntry(dt_entry).read_image(start, f): both seeks are absolute, both
\* reads are made whatever the offsets and sizes are.  dtb_at and vrl_at
\* record the positions sought.
ReadImage(s, start, e) ==
    LET p1  == start + e.dtb_offset
        p2  == start + e.vrl_offset
        dt  == ReadBytes(s, p1, e.dtb_size)
        vrl == ReadBytes(s, p2, e.vrl_size)
    IN  IF ~SeekOk(p1) THEN [ok |-> FALSE, reason |-> "OSError", pos |-> 0]
        ELSE IF ~ReadSizeOk(e.dtb_size)
        THEN [ok |-> FALSE, reason |-> "ValueError", pos |-> p1]
        ELSE IF ~SeekOk(p2)
        THEN [ok |-> FALSE, reason |-> "OSError", pos |-> p1 + Len(dt)]
        ELSE IF ~ReadSizeOk(e.vrl_size)
        THEN [ok |-> FALSE, reason |-> "ValueError", pos |-> p2]
        ELSE [ ok  |-> TRUE,
               pos |-> p2 + Len(vrl),
               entry |->
                 [ board_id   |-> e.board_id,
                   dtb_size   |-> e.dtb_size,
                   dtb_offset |-> e.dtb_offset,
                   vrl_size   |-> e.vrl_size,
                   vrl_offset |-> e.vrl_offset,
                   raw_dt     |-> dt,
                   vrl        |-> vrl,
                   compressed |-> IsCompressed(dt),
                   dtb_at     |-> p1,
                   vrl_at     |-> p2 ] ]

\* the dt property
Dt(entry) ==
    IF entry.compressed THEN gzip_decompress(entry.raw_dt) ELSE entry.raw_dt

\* as_dict
AsDict(entry) ==
    [ board_id   |-> Utf8Decode(entry.board_id),
      dtb_size   |-> entry.dtb_size,
      dtb_offset |-> entry.dtb_offset,
      vrl_size   |-> entry.vrl_size,
      vrl_offset |-> entry.vrl_offset,
      compressed |-> entry.compressed ]

\* one turn of the second list comprehension: extract_dt on the next record
ExtractDt ==
    /\ pc = "PayloadsResolved"
    /\ Len(dts) < Len(entries)
    /\ LET r == ReadImage(stream, PayloadBase(magic_pos),
                          entries[Len(dts) + 1])
       IN  /\ pos' = r.pos
           /\ IF r.ok
              THEN /\ dts' = Append(dts, r.entry)
                   /\ UNCHANGED <<pc, failure>>
              ELSE /\ Raise(r.reason)
                   /\ UNCHANGED dts
    /\ UNCHANGED <<stream, preserve, current_pos, last_pos, nread, magic_pos,
                   header, entries, result, w, files, gz_calls, manifest>>

\* every record is extracted: read_dtb returns header, dts
FinishExtract ==
    /\ pc = "PayloadsResolved"
    /\ Len(dts) = Len(entries)
    /\ pc' = "Done"
    /\ result' = <<[header |-> header[1], dts |-> dts]>>
    /\ UNCHANGED <<stream, pos, preserve, current_pos, last_pos, nread,
                   magic_pos, header, entries, dts, w, files, gz_calls,
                   manifest, failure>>

----------------------------------------------------------------------------
(* main, after read_dtb has returned *)

Names(fs) == {fs[i].name : i \in 1..Len(fs)}

\* one turn of the for loop: the entry's .dtb file (mode "xb") gets the raw
\* or the decompressed image, and its .vrl file is written when vrl_offset
\* is non-zero
WriteEntry ==
    /\ pc = "Done"
    /\ manifest = <<>>
    /\ w < Len(result[1].dts)
    /\ LET entry   == result[1].dts[w + 1]
           dtbName == <<entry.dtb_offset, "dtb">>
           vrlName == <<entry.vrl_offset, "vrl">>
           gunzip  == ~preserve /\ entry.compressed
           dtbFile == [name |-> dtbName,
                       data |-> IF preserve THEN entry.raw_dt ELSE Dt(entry)]
       IN  /\ gz_calls' = IF gunzip /\ dtbName \notin Names(files)
                          THEN gz_calls \cup {w + 1} ELSE gz_calls
           /\ IF dtbName \in Names(files)
              THEN /\ Raise("FileExistsError")
                   /\ UNCHANGED <<files, w>>
              ELSE IF gunzip /\ ~GzipOk(entry.raw_dt)
              THEN /\ Raise("BadGzipFile")
                   /\ files' = Append(files, [name |-> dtbName, data |-> <<>>])
                   /\ UNCHANGED w
              ELSE IF entry.vrl_offset = 0
              THEN /\ files' = Append(files, dtbFile)
                   /\ w' = w + 1
                   /\ UNCHANGED <<pc, failure>>
              ELSE IF vrlName \in Names(files)
              THEN /\ Raise("FileExistsError")
                   /\ files' = Append(files, dtbFile)
                   /\ UNCHANGED w
              ELSE /\ files' = Append(Append(files, dtbFile),
                                      [name |-> vrlName, data |-> entry.vrl])
                   /\ w' = w + 1
                   /\ UNCHANGED <<pc, failure>>
    /\ UNCHANGED <<stream, pos, preserve, current_pos, last_pos, nread,
                   magic_pos, header, entries, dts, result, manifest>>

\* the info dict is built and dumped to image_info.json (mode "x")
EmitManifest ==
    /\ pc = "Done"
    /\ manifest = <<>>
    /\ w = Len(result[1].dts)
    /\ LET es == result[1].dts
       IN  IF \E i \in 1..Len(es) : ~Utf8Ok(es[i].board_id)
           THEN /\ Raise("UnicodeDecodeError")
                /\ UNCHANGED manifest
           ELSE /\ manifest' =
                      << [ image_version  |-> result[1].header.version,
                           image_dt_count |-> result[1].header.dt_count,
                           image_dts      |->
                               [i \in 1..Len(es) |-> AsDict(es[i])] ] >>
                /\ UNCHANGED <<pc, failure>>
    /\ UNCHANGED <<stream, pos, preserve, current_pos, last_pos, nread,
                   magic_pos, header, entries, dts, result, w, files,
                   gz_calls>>

----------------------------------------------------------------------------

Next ==
    \/ StartParse
    \/ ScanBlock
    \/ ReadHeader
    \/ ReadEntry
    \/ FinishTable
    \/ ExtractDt
    \/ FinishExtract
    \/ WriteEntry
    \/ EmitManifest

Spec == Init /\ [][Next]_vars

----------------------------------------------------------------------------
(* Properties *)

\* find_hsdt_magic has returned
Located == pc \notin {"Start", "MagicSearch"}

\* the signature's 4 bytes lie in the image at position p
MagicAt(s, p) ==
    /\ p + 4 <= s.len
    /\ ByteAt(s, p) = 72
    /\ ByteAt(s, p + 1) = 83
    /\ ByteAt(s, p + 2) = 68
    /\ ByteAt(s, p + 3) = 84

\* the signature lies wholly inside 2048-byte block c of the image
InBlock(s, c) ==
    \E p \in DOMAIN s.at :
        /\ p >= c * 2048
        /\ p + 4 <= (c + 1) * 2048
        /\ MagicAt(s, p)

\* block b is the first block holding the signature, and holds it at its
\* first byte
FirstAtStart(s, b) ==
    /\ MagicAt(s, b * 2048)
    /\ \A c \in 0..(b - 1) : ~InBlock(s, c)

\* C1, as stated: when the first block that holds the signature is block
\* b >= 1, with the signature at the block's first byte, the locator
\* returns (b - 1) * 2048, the start of the block before it.
C1_ReturnsPreviousBlock ==
    \A b \in 1..(MaxPadBlocks + 1) :
        (Located /\ FirstAtStart(stream, b)) => magic_pos = (b - 1) * 2048

\* C1, amended: when the first block that holds the signature is block
\* b >= 1, with the signature at the block's first byte, the locator
\* returns b * 2048, the start of block b itself.
C1_ReturnsFoundBlock ==
    \A b \in 1..(MaxPadBlocks + 1) :
        (Located /\ FirstAtStart(stream, b)) => magic_pos = b * 2048

C1_Witness ==
    /\ Located
    /\ FirstAtStart(stream, 1)
    /\ magic_pos = 2048

\* C2: on a stream with no signature inside any block the scan ends at the
\* end of data with a failure: once a read has returned no bytes, the scan
\* is not running any more and the run has failed.
C2_ScanFailsAtEndOfData ==
    (current_pos > 0 /\ nread = 0) => pc = "Failed"

\* C3: an entry with vrl_offset = 0 resolves with an empty VRL payload,
\* whatever its vrl_size.
C3_ZeroOffsetNoVrl ==
    \A i \in 1..Len(dts) : dts[i].vrl_offset = 0 => dts[i].vrl = <<>>

\* C4: every resolved entry holds exactly dtb_size bytes of DTB and
\* vrl_size bytes of VRL; a short read fails the resolution instead.
C4_ExactSizes ==
    \A i \in 1..Len(dts) :
        /\ Len(dts[i].raw_dt) = dts[i].dtb_size
        /\ dts[i].vrl_offset # 0 => Len(dts[i].vrl) = dts[i].vrl_size

\* the header claims more records than the stream holds after it
TableTruncated ==
    /\ header # <<>>
    /\ header[1].dt_count > 0
    /\ stream.len < magic_pos + 12 + 40 * header[1].dt_count

\* C5: when the stream ends before entry_count full records, the parse
\* never gets past the table: it is still reading records or has failed,
\* no payload is resolved, nothing is returned, written or emitted.
C5_TruncatedTableFails ==
    TableTruncated =>
        /\ pc \in {"EntryTableRead", "Failed"}
        /\ pc = "EntryTableRead" => Len(entries) < header[1].dt_count
        /\ dts = <<>>
        /\ result = <<>>
        /\ files = <<>>
        /\ manifest = <<>>

C5_Witness ==
    /\ TableTruncated
    /\ pc = "Failed"
    /\ Len(entries) = 1
    /\ header[1].dt_count = 2

\* C6: every header a successful parse returns has the magic HSDT.
C6_ReturnedMagicIsHSDT ==
    result # <<>> => result[1].header.magic = <<72, 83, 68, 84>>

\* C7: compressed is true exactly when the DTB bytes are at least two and
\* start with 1F 8B; and the image written for an uncompressed entry
\* without --preserve is its DTB bytes, with no decompression attempted.
C7_Classifier ==
    /\ \A i \in 1..Len(dts) :
          dts[i].compressed <=>
              /\ Len(dts[i].raw_dt) >= 2
              /\ dts[i].raw_dt[1] = 31
              /\ dts[i].raw_dt[2] = 139
    /\ \A i \in 1..w :
          ~dts[i].compressed =>
              /\ i \notin gz_calls
              /\ \E k \in 1..Len(files) :
                    /\ files[k].name = <<dts[i].dtb_offset, "dtb">>
                    /\ files[k].data = dts[i].raw_dt

C7_Witness ==
    /\ ~preserve
    /\ w >= 1
    /\ dts[1].raw_dt = <<31>>
    /\ ~dts[1].compressed
    /\ files[1].data = <<31>>

\* the fields of the i-th 40-byte record after the header at magic_pos
RecordAt(i) ==
    DecodeEntry(ReadBytes(stream, magic_pos + 12 + 40 * (i - 1), 40))

\* C8: a successful parse returns exactly entry_count entries, in table
\* order, the i-th with the fields of the i-th record, and entry_count is
\* not negative.
C8_CountAndOrder ==
    result # <<>> =>
        /\ result[1].header.dt_count >= 0
        /\ Len(result[1].dts) = result[1].header.dt_count
        /\ \A i \in 1..Len(result[1].dts) :
              /\ result[1].dts[i].board_id = RecordAt(i).board_id
              /\ result[1].dts[i].dtb_size = RecordAt(i).dtb_size
              /\ result[1].dts[i].dtb_offset = RecordAt(i).dtb_offset
              /\ result[1].dts[i].vrl_size = RecordAt(i).vrl_size
              /\ result[1].dts[i].vrl_offset = RecordAt(i).vrl_offset

\* the n bytes of the image from position p on, fewer at end of data
Slice(p, n) ==
    LET k == Min(n, Max(stream.len - p, 0))
    IN  [j \in 1..k |-> ByteAt(stream, p + j - 1)]

\* C9: every entry's DTB bytes are read at 2 * magic_pos + dtb_offset and
\* its VRL bytes at 2 * magic_pos + vrl_offset, whatever was read before.
C9_DoubledBase ==
    \A i \in 1..Len(dts) :
        /\ dts[i].dtb_at = 2 * magic_pos + entries[i].dtb_offset
        /\ dts[i].vrl_at = 2 * magic_pos + entries[i].vrl_offset
        /\ dts[i].raw_dt =
               Slice(2 * magic_pos + entries[i].dtb_offset,
                     entries[i].dtb_size)
        /\ dts[i].vrl =
               Slice(2 * magic_pos + entries[i].vrl_offset,
                     entries[i].vrl_size)

C9_Witness ==
    /\ magic_pos = 2048
    /\ Len(dts) = 2
    /\ dts[2].dtb_at = 4096 + PayOff
    /\ dts[2].raw_dt = <<222, 173, 190, 239>>
    /\ dts[2].vrl_at = 4096 + PayOff + 6
    /\ Len(dts[2].vrl) = 2

Rank(state) ==
    CASE state = "Start" -> 0
      [] state = "MagicSearch" -> 1
      [] state = "HeaderRead" -> 2
      [] state = "EntryTableRead" -> 3
      [] state = "PayloadsResolved" -> 4
      [] state = "Done" -> 5
      [] OTHER -> 6

\* C10: the run moves through Start, MagicSearch, HeaderRead,
\* EntryTableRead, PayloadsResolved, Done one state at a time and never
\* back; every record is decoded before the first payload is resolved; an
\* exception puts the run in Failed at once, Failed is final, and
\* image_info.json is emitted only in Done.
C10_LinearRun ==
    [][ /\ pc' # pc => \/ pc' = "Failed"
                       \/ Rank(pc') = Rank(pc) + 1
        /\ pc = "Failed" => pc' = "Failed"
        /\ failure' # failure => pc' = "Failed" /\ pc # "Failed"
        /\ pc' = "Failed" => failure' # ""
        /\ dts' # dts => /\ pc = "PayloadsResolved"
                         /\ Len(entries) >= header[1].dt_count
                         /\ entries' = entries
        /\ manifest' # <<>> => pc' = "Done" /\ pc = "Done"
      ]_vars

C10_Witness ==
    /\ pc = "Done"
    /\ manifest # <<>>
    /\ Len(manifest[1].image_dts) = 2
    /\ Len(files) >= 2

====
